---- MODULE Spec2Model ----
(***************************************************************************)
(* Model of the ESP32 WifiClient component (WifiClient.cpp, WifiClient.h). *)
(*                                                                         *)
(* Two threads run the code: one application thread, which calls the       *)
(* public methods of the singleton (init, connect, disconnect,             *)
(* isConnected, registerEventReceiver), and the event-dispatch thread of   *)
(* the default event loop, which runs WifiClient_event_handler.  Every     *)
(* statement that touches shared state is a step of its own, so the two    *)
(* threads interleave statement by statement.                              *)
(*                                                                         *)
(* The ESP-IDF / FreeRTOS primitives the code calls are modelled by their  *)
(* interface:                                                              *)
(*  - every call returning esp_err_t either succeeds, with its effect, or  *)
(*    fails, with no effect;                                               *)
(*  - the event loop invokes the handler for one event at a time, through  *)
(*    a registration that exists when the event is dispatched;             *)
(*  - esp_event_handler_unregister removes a registration; the code does   *)
(*    nothing to wait for a handler invocation that is running, and the    *)
(*    model lets the call return while one is (whether the loop makes the  *)
(*    caller wait depends on the ESP-IDF release; waiting is one of the    *)
(*    interleavings);                                                      *)
(*  - xSemaphoreTake on the current mutex blocks until it is available,    *)
(*    xSemaphoreGive makes the current mutex available, taking a NULL      *)
(*    handle stops the system (assertion / load fault);                    *)
(*  - xQueueSend with a zero timeout appends when there is room and fails  *)
(*    otherwise.                                                           *)
(***************************************************************************)
EXTENDS Naturals, Sequences, FiniteSets

\* Bound of the model: the number of Events the queues created by
\* registerEventReceiver hold together.
MaxTotalQueueSize == 2

\* enum class Event
CONNECTED == "CONNECTED"
DISCONNECTED == "DISCONNECTED"

\* The driver events the handler distinguishes.
WIFI_EVENT_STA_START == "WIFI_EVENT_STA_START"
WIFI_EVENT_STA_DISCONNECTED == "WIFI_EVENT_STA_DISCONNECTED"
WIFI_EVENT_WIFI_READY == "WIFI_EVENT_WIFI_READY"
WIFI_EVENT_STA_CONNECTED == "WIFI_EVENT_STA_CONNECTED"
IP_EVENT_STA_GOT_IP == "IP_EVENT_STA_GOT_IP"

WifiEvents ==
    {WIFI_EVENT_STA_START, WIFI_EVENT_STA_DISCONNECTED, WIFI_EVENT_WIFI_READY,
     WIFI_EVENT_STA_CONNECTED}

DriverEvents == WifiEvents \cup {IP_EVENT_STA_GOT_IP}

VARIABLES
    \* ---- the singleton's attributes
    connected,        \* bool connected
    initalized,       \* bool initalized
    connectedMutex,   \* "NULL", or the state of the mutex the handle names: "free" / "taken"
    eventReceivers,   \* the registered queues, in registration order
    \* ---- the driver and the event loop
    wifiReg,          \* handler registered for (WIFI_EVENT, ESP_EVENT_ANY_ID)
    ipReg,            \* handler registered for (IP_EVENT, IP_EVENT_STA_GOT_IP)
    started,          \* the wifi driver is started
    everStarted,      \* the driver has been started before: events may be queued in the loop
    \* ---- the application thread
    appPc,            \* the statement it is at
    appOp,            \* the method it is in
    appArg,           \* queueSize of registerEventReceiver
    appRead,          \* the local `result` of isConnected()
    appErr,           \* how the method ended: "ok" or the exception
    calls,            \* what the method has done so far: its driver and event-loop calls, its writes of connected
    pre,              \* the state when the method was called
    \* ---- the event-dispatch thread
    evtPc,            \* the statement of the handler it is at
    evtEvent,         \* the event being handled
    evtRead,          \* the result of the handler's isConnected()
    evtIdx,           \* fireEvent: the position of the iteration
    evtEnd,           \* fireEvent: the end of the iteration
    fired,            \* the Event this invocation passed to fireEvent, or "none"
    connectReqs,      \* esp_wifi_connect calls of this invocation
    \* ---- history
    lastAddr,         \* the last address-relevant event handled since disconnect() last wrote the flag:
                      \* "none", "acquired", "lost"; "void" when disconnect() wrote it during a handler invocation
    lastTaken         \* the last Event the queue of the first subscriber took:
                      \* "none" before the first, "overflowed" once a send to it failed

vars ==
    <<connected, initalized, connectedMutex, eventReceivers, wifiReg, ipReg, started,
      everStarted, appPc, appOp, appArg, appRead, appErr, calls, pre,
      evtPc, evtEvent, evtRead, evtIdx, evtEnd, fired, connectReqs,
      lastAddr, lastTaken>>

singletonVars == <<connected, initalized, connectedMutex, eventReceivers>>
driverVars == <<wifiReg, ipReg, started, everStarted>>
appVars == <<appPc, appOp, appArg, appRead, appErr, calls, pre>>
evtVars == <<evtPc, evtEvent, evtRead, evtIdx, evtEnd, fired, connectReqs>>
histVars == <<lastAddr, lastTaken>>

\* What a method call remembers of the state it was called in.
Snapshot ==
    [wifiReg |-> wifiReg, ipReg |-> ipReg, started |-> started,
     initalized |-> initalized, receivers |-> Len(eventReceivers)]

NoSnapshot ==
    [wifiReg |-> FALSE, ipReg |-> FALSE, started |-> FALSE,
     initalized |-> FALSE, receivers |-> 0]

\* A queue made by xQueueCreate(queueSize, sizeof(Event)).
NewQueue(queueSize) == [cap |-> queueSize, buf |-> <<>>]

RECURSIVE TotalQueueSize(_)
TotalQueueSize(receivers) ==
    IF receivers = <<>> THEN 0
    ELSE Head(receivers).cap + TotalQueueSize(Tail(receivers))

\* static WifiClient Singleton: zero-initialized, then WifiClient() sets nothing.
Init ==
    /\ connected = FALSE
    /\ initalized = FALSE
    /\ connectedMutex = "NULL"
    /\ eventReceivers = <<>>
    /\ wifiReg = FALSE
    /\ ipReg = FALSE
    /\ started = FALSE
    /\ everStarted = FALSE
    /\ appPc = "idle"
    /\ appOp = "none"
    /\ appArg = 0
    /\ appRead = FALSE
    /\ appErr = "none"
    /\ calls = <<>>
    /\ pre = NoSnapshot
    /\ evtPc = "idle"
    /\ evtEvent = "none"
    /\ evtRead = FALSE
    /\ evtIdx = 0
    /\ evtEnd = 0
    /\ fired = "none"
    /\ connectReqs = 0
    /\ lastAddr = "none"
    /\ lastTaken = "none"

----------------------------------------------------------------------------
\* The application thread.

\* A method is called: the thread enters it at statement `pc`.
Call(op, pc, arg) ==
    /\ appPc = "idle"
    /\ appPc' = pc
    /\ appOp' = op
    /\ appArg' = arg
    /\ appRead' = FALSE
    /\ appErr' = "none"
    /\ calls' = <<>>
    /\ pre' = Snapshot

\* The method ends, normally ("ok") or by throwing `err`.
Finish(err) ==
    /\ appPc' = "ret"
    /\ appErr' = err

\* The caller takes the result; the thread is free for the next call.
Return ==
    /\ appPc = "ret"
    /\ appPc' = "idle"
    /\ appOp' = "none"
    /\ appArg' = 0
    /\ appRead' = FALSE
    /\ appErr' = "none"
    /\ calls' = <<>>
    /\ pre' = NoSnapshot
    /\ UNCHANGED <<singletonVars, driverVars, evtVars, histVars>>


\* xSemaphoreTake / xSemaphoreGive on a NULL handle: the assertion (or the load
\* fault) stops the system, both threads with it.
Abort ==
    /\ appPc' = "aborted"
    /\ evtPc' = "aborted"
    /\ UNCHANGED <<singletonVars, driverVars, appOp, appArg, appRead, appErr, calls, pre,
                   evtEvent, evtRead, evtIdx, evtEnd, fired, connectReqs,
                   histVars>>


\* ---- bool WifiClient::isConnected() const, called by the application or from
\* connect() / disconnect().
CallIsConnected == 
    /\ Call("isConnected", "isc_take", 0)
    /\ UNCHANGED <<singletonVars, driverVars, evtVars, histVars>>

AppIsConnectedTake ==
    /\ appPc = "isc_take"
    /\ IF connectedMutex = "NULL"
       THEN Abort
       ELSE /\ connectedMutex = "free"
            /\ connectedMutex' = "taken"
            /\ appPc' = "isc_read"
            /\ UNCHANGED <<connected, initalized, eventReceivers, driverVars, appOp, appArg,
                           appRead, appErr, calls, pre, evtVars, histVars>>

AppIsConnectedRead ==
    /\ appPc = "isc_read"
    /\ appRead' = connected
    /\ appPc' = "isc_give"
    /\ UNCHANGED <<singletonVars, driverVars, appOp, appArg, appErr, calls, pre,
                   evtVars, histVars>>

\* xSemaphoreGive(Singleton.connectedMutex), then the caller's next statement.
AppIsConnectedGive ==
    /\ appPc = "isc_give"
    /\ IF connectedMutex = "NULL"
       THEN Abort
       ELSE /\ connectedMutex' = "free"
            /\ IF appOp = "connect" THEN appPc' = "con_branch" /\ UNCHANGED appErr
               ELSE IF appOp = "disconnect" THEN appPc' = "dis_branch" /\ UNCHANGED appErr
               ELSE Finish("ok")
            /\ UNCHANGED <<connected, initalized, eventReceivers, driverVars, appOp,
                           appArg, appRead, calls, pre, evtVars, histVars>>

\* ---- void WifiClient::init(Config const& config)
CallInit ==
    /\ Call("init", "init_mutex", 0)
    /\ UNCHANGED <<singletonVars, driverVars, evtVars, histVars>>

\* connectedMutex = xSemaphoreCreateMutex(): a new mutex, available, or NULL when
\* there is no memory for it; the handle of the previous one is overwritten.
InitCreateMutex ==
    /\ appPc = "init_mutex"
    /\ \E created \in BOOLEAN :
          connectedMutex' = IF created THEN "free" ELSE "NULL"
    /\ appPc' = "init_netif"
    /\ UNCHANGED <<connected, initalized, eventReceivers, driverVars, appOp,
                   appArg, appRead, appErr, calls, pre, evtVars, histVars>>

\* The statement after each of init's driver calls.
InitNext(pc) ==
    CASE pc = "init_netif" -> "init_loop"
      [] pc = "init_loop" -> "init_wifi"
      [] pc = "init_wifi" -> "init_mode"
      [] pc = "init_mode" -> "init_config"
      [] pc = "init_config" -> "init_set"

InitSteps == {"init_netif", "init_loop", "init_wifi", "init_mode", "init_config"}

\* Variant of the code: a failing init() clears the flag.
InitFailureFlag_Cleared == FALSE

\* What a failing step of init does to the flag: nothing.
InitFailureFlag == initalized

\* esp_netif_init, esp_event_loop_create_default, esp_wifi_init,
\* esp_wifi_set_mode, esp_wifi_set_config: each returns ESP_OK or an error, and
\* an error throws.
InitStep ==
    /\ appPc \in InitSteps
    /\ \E ok \in BOOLEAN :
          IF ok
          THEN /\ appPc' = InitNext(appPc)
               /\ UNCHANGED <<appErr, initalized>>
          ELSE /\ Finish("init_failed")
               /\ initalized' = InitFailureFlag
    /\ calls' = Append(calls, appPc)
    /\ UNCHANGED <<connected, connectedMutex, eventReceivers, driverVars, appOp,
                   appArg, appRead, pre, evtVars, histVars>>

\* initalized = true
InitSetInitialized ==
    /\ appPc = "init_set"
    /\ initalized' = TRUE
    /\ Finish("ok")
    /\ UNCHANGED <<connected, connectedMutex, eventReceivers, driverVars, appOp,
                   appArg, appRead, calls, pre, evtVars, histVars>>

\* Variant of the code: connect() and disconnect() do not look at initalized.
CheckInitialized_Skipped ==
    /\ appPc = "check_init"
    /\ appPc' = "isc_take"
    /\ UNCHANGED <<singletonVars, driverVars, appOp, appArg, appRead, appErr, calls, pre,
                   evtVars, histVars>>

\* ---- if (!initalized) throw runtime_error(... "client not initialized"), the
\* first statement of connect() and of disconnect().
CheckInitialized ==
    /\ appPc = "check_init"
    /\ IF ~initalized
       THEN Finish("not_initialized")
       ELSE appPc' = "isc_take" /\ UNCHANGED appErr
    /\ UNCHANGED <<singletonVars, driverVars, appOp, appArg, appRead, calls, pre,
                   evtVars, histVars>>

\* Variant of the code: the result of the call is not checked.
DriverCall_ResultIgnored(fn, ok, next, err) ==
    /\ calls' = Append(calls, fn)
    /\ appPc' = next
    /\ UNCHANGED appErr

\* A driver or event-loop call of connect() / disconnect(): logged, then either
\* its effect and the next statement, or the exception.
DriverCall(fn, ok, next, err) ==
    /\ calls' = Append(calls, fn)
    /\ IF ok
       THEN appPc' = next /\ UNCHANGED appErr
       ELSE Finish(err)

\* ---- void WifiClient::connect() const
CallConnect ==
    /\ Call("connect", "check_init", 0)
    /\ UNCHANGED <<singletonVars, driverVars, evtVars, histVars>>

\* Variant of the code: connect() goes on to register whatever isConnected() returned.
ConnectBranch_FlagIgnored ==
    /\ appPc = "con_branch"
    /\ appPc' = "con_reg_wifi"
    /\ UNCHANGED <<singletonVars, driverVars, appOp, appArg, appRead, appErr, calls, pre,
                   evtVars, histVars>>

\* if (isConnected()) return;
ConnectBranch ==
    /\ appPc = "con_branch"
    /\ IF appRead
       THEN Finish("ok")
       ELSE appPc' = "con_reg_wifi" /\ UNCHANGED appErr
    /\ UNCHANGED <<singletonVars, driverVars, appOp, appArg, appRead, calls, pre,
                   evtVars, histVars>>

\* esp_event_handler_register(WIFI_EVENT, ESP_EVENT_ANY_ID, ...)
ConnectRegisterWifi ==
    /\ appPc = "con_reg_wifi"
    /\ \E ok \in BOOLEAN :
          /\ DriverCall("register_wifi", ok, "con_reg_ip", "register_failed")
          /\ wifiReg' = (wifiReg \/ ok)
    /\ UNCHANGED <<singletonVars, ipReg, started, everStarted, appOp, appArg,
                   appRead, pre, evtVars, histVars>>

\* esp_event_handler_register(IP_EVENT, IP_EVENT_STA_GOT_IP, ...)
ConnectRegisterIp ==
    /\ appPc = "con_reg_ip"
    /\ \E ok \in BOOLEAN :
          /\ DriverCall("register_ip", ok, "con_start", "register_failed")
          /\ ipReg' = (ipReg \/ ok)
    /\ UNCHANGED <<singletonVars, wifiReg, started, everStarted, appOp, appArg,
                   appRead, pre, evtVars, histVars>>

\* esp_wifi_start()
ConnectStart ==
    /\ appPc = "con_start"
    /\ \E ok \in BOOLEAN :
          /\ calls' = Append(calls, "esp_wifi_start")
          /\ Finish(IF ok THEN "ok" ELSE "start_failed")
          /\ started' = (started \/ ok)
          /\ everStarted' = (everStarted \/ ok)
    /\ UNCHANGED <<singletonVars, wifiReg, ipReg, appOp, appArg, appRead, pre,
                   evtVars, histVars>>

\* ---- void WifiClient::disconnect() const
CallDisconnect ==
    /\ Call("disconnect", "check_init", 0)
    /\ UNCHANGED <<singletonVars, driverVars, evtVars, histVars>>

\* Variant of the code: disconnect() goes on to stop the driver whatever isConnected() returned.
DisconnectBranch_FlagIgnored ==
    /\ appPc = "dis_branch"
    /\ appPc' = "dis_stop"
    /\ UNCHANGED <<singletonVars, driverVars, appOp, appArg, appRead, appErr, calls, pre,
                   evtVars, histVars>>

\* if (!isConnected()) return;
DisconnectBranch ==
    /\ appPc = "dis_branch"
    /\ IF ~appRead
       THEN Finish("ok")
       ELSE appPc' = "dis_stop" /\ UNCHANGED appErr
    /\ UNCHANGED <<singletonVars, driverVars, appOp, appArg, appRead, calls, pre,
                   evtVars, histVars>>

\* esp_wifi_stop()
DisconnectStop ==
    /\ appPc = "dis_stop"
    /\ \E ok \in BOOLEAN :
          /\ DriverCall("esp_wifi_stop", ok, "dis_unreg_wifi", "stop_failed")
          /\ started' = (started /\ ~ok)
    /\ UNCHANGED <<singletonVars, wifiReg, ipReg, everStarted, appOp, appArg,
                   appRead, pre, evtVars, histVars>>

\* esp_event_handler_unregister(WIFI_EVENT, ESP_EVENT_ANY_ID, ...)
DisconnectUnregisterWifi ==
    /\ appPc = "dis_unreg_wifi"
    /\ \E ok \in BOOLEAN :
          /\ DriverCall("unregister_wifi", ok, "dis_unreg_ip", "unregister_failed")
          /\ wifiReg' = (wifiReg /\ ~ok)
    /\ UNCHANGED <<singletonVars, ipReg, started, everStarted, appOp, appArg,
                   appRead, pre, evtVars, histVars>>

\* esp_event_handler_unregister(IP_EVENT, IP_EVENT_STA_GOT_IP, ...)
DisconnectUnregisterIp ==
    /\ appPc = "dis_unreg_ip"
    /\ \E ok \in BOOLEAN :
          /\ DriverCall("unregister_ip", ok, "set_take", "unregister_failed")
          /\ ipReg' = (ipReg /\ ~ok)
    /\ UNCHANGED <<singletonVars, wifiReg, started, everStarted, appOp, appArg,
                   appRead, pre, evtVars, histVars>>

\* setConnected(false), the last statement of disconnect():
\* xSemaphoreTake / Singleton.connected = connected / xSemaphoreGive.
AppSetConnectedTake ==
    /\ appPc = "set_take"
    /\ IF connectedMutex = "NULL"
       THEN Abort
       ELSE /\ connectedMutex = "free"
            /\ connectedMutex' = "taken"
            /\ appPc' = "set_write"
            /\ UNCHANGED <<connected, initalized, eventReceivers, driverVars, appOp, appArg,
                           appRead, appErr, calls, pre, evtVars, histVars>>

AppSetConnectedWrite ==
    /\ appPc = "set_write"
    /\ connected' = FALSE
    /\ calls' = Append(calls, "setConnected")
    /\ lastAddr' = IF evtPc = "idle" THEN "none" ELSE "void"
    /\ appPc' = "set_give"
    /\ UNCHANGED <<initalized, connectedMutex, eventReceivers, driverVars, appOp,
                   appArg, appRead, appErr, pre, evtVars, lastTaken>>

AppSetConnectedGive ==
    /\ appPc = "set_give"
    /\ IF connectedMutex = "NULL"
       THEN Abort
       ELSE /\ connectedMutex' = "free"
            /\ Finish("ok")
            /\ UNCHANGED <<connected, initalized, eventReceivers, driverVars, appOp,
                           appArg, appRead, calls, pre, evtVars, histVars>>

\* ---- void WifiClient::registerEventReceiver(QueueHandle_t& queueHandle, uint8_t queueSize)
CallRegisterEventReceiver ==
    /\ \E queueSize \in 0..(MaxTotalQueueSize - TotalQueueSize(eventReceivers)) :
          Call("registerEventReceiver", "rer_check", queueSize)
    /\ UNCHANGED <<singletonVars, driverVars, evtVars, histVars>>

\* Variant of the code: registerEventReceiver does not check queueSize.
RegisterCheckSize_Skipped ==
    /\ appPc = "rer_check"
    /\ appPc' = "rer_create"
    /\ UNCHANGED <<singletonVars, driverVars, appOp, appArg, appRead, appErr, calls, pre,
                   evtVars, histVars>>

\* if (queueSize == 0) throw invalid_argument(...)
RegisterCheckSize ==
    /\ appPc = "rer_check"
    /\ IF appArg = 0
       THEN Finish("invalid_argument")
       ELSE appPc' = "rer_create" /\ UNCHANGED appErr
    /\ UNCHANGED <<singletonVars, driverVars, appOp, appArg, appRead, calls, pre,
                   evtVars, histVars>>

\* queueHandle = xQueueCreate(...); if (queueHandle == 0) throw runtime_error(...);
\* eventReceivers.push_back(&queueHandle)
RegisterCreateAndPush ==
    /\ appPc = "rer_create"
    /\ \E created \in BOOLEAN :
          IF created
          THEN /\ eventReceivers' = Append(eventReceivers, NewQueue(appArg))
               /\ Finish("ok")
          ELSE /\ Finish("queue_not_created")
               /\ UNCHANGED eventReceivers
    /\ UNCHANGED <<connected, initalized, connectedMutex, driverVars, appOp,
                   appArg, appRead, calls, pre, evtVars, histVars>>


----------------------------------------------------------------------------
\* The event-dispatch thread: WifiClient_event_handler.

\* The branch of the handler's if / else-if chain an event takes.
HandlerEntry(e) ==
    CASE e = WIFI_EVENT_STA_START -> "h_connect"
      [] e = WIFI_EVENT_STA_DISCONNECTED -> "h_isc_take"
      [] e = WIFI_EVENT_WIFI_READY -> "h_log"
      [] e = WIFI_EVENT_STA_CONNECTED -> "h_log"
      [] e = IP_EVENT_STA_GOT_IP -> "h_isc_take"

\* The registration through which the loop delivers an event.
Registered(e) == IF e = IP_EVENT_STA_GOT_IP THEN ipReg ELSE wifiReg

\* The address-relevant history after an event is handled.
AddrAfter(e) ==
    CASE e = IP_EVENT_STA_GOT_IP -> "acquired"
      [] e = WIFI_EVENT_STA_DISCONNECTED -> "lost"
      [] OTHER -> lastAddr

\* The loop takes an event the driver posted and invokes the handler registered
\* for it.
Dispatch(e) ==
    /\ evtPc = "idle"
    /\ everStarted
    /\ Registered(e)
    /\ evtPc' = HandlerEntry(e)
    /\ evtEvent' = e
    /\ evtRead' = FALSE
    /\ fired' = "none"
    /\ connectReqs' = 0
    /\ lastAddr' = AddrAfter(e)
    /\ UNCHANGED <<singletonVars, driverVars, appVars, evtIdx, evtEnd, lastTaken>>

\* The handler returns to the loop.
HandlerDone ==
    /\ evtPc' = "idle"
    /\ evtEvent' = "none"
    /\ evtRead' = FALSE
    /\ evtIdx' = 0
    /\ evtEnd' = 0
    /\ fired' = "none"
    /\ connectReqs' = 0

\* WIFI_EVENT_WIFI_READY, WIFI_EVENT_STA_CONNECTED: ESP_LOGD only.
HandlerLog ==
    /\ evtPc = "h_log"
    /\ HandlerDone
    /\ UNCHANGED <<singletonVars, driverVars, appVars, histVars>>

\* WifiClient::Singleton.isConnected() in the handler.
HandlerIsConnectedTake ==
    /\ evtPc = "h_isc_take"
    /\ IF connectedMutex = "NULL"
       THEN Abort
       ELSE /\ connectedMutex = "free"
            /\ connectedMutex' = "taken"
            /\ evtPc' = "h_isc_read"
            /\ UNCHANGED <<connected, initalized, eventReceivers, driverVars, appVars,
                           evtEvent, evtRead, evtIdx, evtEnd, fired,
                           connectReqs, histVars>>

HandlerIsConnectedRead ==
    /\ evtPc = "h_isc_read"
    /\ evtRead' = connected
    /\ evtPc' = "h_isc_give"
    /\ UNCHANGED <<singletonVars, driverVars, appVars, evtEvent, evtIdx, evtEnd,
                   fired, connectReqs, histVars>>

HandlerIsConnectedGive ==
    /\ evtPc = "h_isc_give"
    /\ IF connectedMutex = "NULL"
       THEN Abort
       ELSE /\ connectedMutex' = "free"
            /\ evtPc' = "h_branch"
            /\ UNCHANGED <<connected, initalized, eventReceivers, driverVars, appVars,
                           evtEvent, evtRead, evtIdx, evtEnd, fired,
                           connectReqs, histVars>>

\* The Event an event stands for.
EventFor(e) == IF e = IP_EVENT_STA_GOT_IP THEN CONNECTED ELSE DISCONNECTED

\* Variant of the code: the handler fires without looking at the flag.
ShouldFire_Unconditionally(e, wasConnected) == TRUE

\* if (isConnected()) on "station disconnected", if (!isConnected()) on "got ip".
ShouldFire(e, wasConnected) ==
    IF e = IP_EVENT_STA_GOT_IP THEN ~wasConnected ELSE wasConnected

\* The handler's if: into fireEvent (the range-for takes begin() and end() of
\* eventReceivers once) or past it.
HandlerBranch ==
    /\ evtPc = "h_branch"
    /\ IF ShouldFire(evtEvent, evtRead)
       THEN /\ evtPc' = "h_fire"
            /\ fired' = EventFor(evtEvent)
            /\ evtIdx' = 1
            /\ evtEnd' = Len(eventReceivers)
       ELSE /\ evtPc' = "h_set_take"
            /\ UNCHANGED <<fired, evtIdx, evtEnd>>
    /\ UNCHANGED <<singletonVars, driverVars, appVars, evtEvent, evtRead, connectReqs, histVars>>

\* Variant of the code: a full queue gives up its oldest Event for the new one.
QueueSend_Overwrite(q, event) ==
    IF Len(q.buf) < q.cap THEN [q EXCEPT !.buf = Append(q.buf, event)]
    ELSE [q EXCEPT !.buf = Append(Tail(q.buf), event)]

\* xQueueSend(*queue, &event, 0): appended when the queue has room, else pdFALSE.
QueueSend(q, event) ==
    IF Len(q.buf) < q.cap THEN [q EXCEPT !.buf = Append(q.buf, event)] ELSE q

\* fireEvent is iterating over eventReceivers and push_back has changed the
\* vector since the iteration took begin() and end(): the iterators are
\* invalidated, what the rest of the iteration reads is undefined.
Stale == evtPc = "h_fire" /\ evtIdx <= evtEnd /\ evtEnd < Len(eventReceivers)

\* One turn of fireEvent's loop, or its end.  A turn made with invalidated
\* iterators sends as usual, sends nothing, or stops the system.
HandlerFireEvent ==
    /\ evtPc = "h_fire"
    /\ IF evtIdx <= evtEnd
       THEN \E outcome \in IF Stale THEN {"sent", "lost", "fault"} ELSE {"sent"} :
               IF outcome = "fault"
               THEN /\ Abort
               ELSE /\ eventReceivers' =
                          IF outcome = "sent"
                          THEN [eventReceivers EXCEPT ![evtIdx] = QueueSend(@, fired)]
                          ELSE eventReceivers
                    /\ evtIdx' = evtIdx + 1
                    /\ lastTaken' =
                          IF evtIdx # 1 \/ lastTaken = "overflowed" THEN lastTaken
                          ELSE IF eventReceivers'[1] = eventReceivers[1] THEN "overflowed"
                          ELSE fired
                    /\ UNCHANGED <<connected, initalized, connectedMutex, driverVars,
                                   appVars, evtPc, evtEvent, evtRead, evtEnd, fired,
                                   connectReqs, lastAddr>>
       ELSE /\ evtPc' = "h_set_take"
            /\ UNCHANGED <<singletonVars, driverVars, appVars, evtEvent, evtRead,
                           evtIdx, evtEnd, fired, connectReqs, histVars>>

\* WifiClient::Singleton.setConnected(...) in the handler.
HandlerSetConnectedTake ==
    /\ evtPc = "h_set_take"
    /\ IF connectedMutex = "NULL"
       THEN Abort
       ELSE /\ connectedMutex = "free"
            /\ connectedMutex' = "taken"
            /\ evtPc' = "h_set_write"
            /\ UNCHANGED <<connected, initalized, eventReceivers, driverVars, appVars,
                           evtEvent, evtRead, evtIdx, evtEnd, fired,
                           connectReqs, histVars>>

\* Variant of the code: the handler writes true on "station disconnected" too.
HandlerFlagValue_AlwaysTrue(e) == TRUE

\* setConnected(false) on "station disconnected", setConnected(true) on "got ip".
HandlerFlagValue(e) == e = IP_EVENT_STA_GOT_IP

HandlerSetConnectedWrite ==
    /\ evtPc = "h_set_write"
    /\ connected' = HandlerFlagValue(evtEvent)
    /\ evtPc' = "h_set_give"
    /\ UNCHANGED <<initalized, connectedMutex, eventReceivers, driverVars, appVars,
                   evtEvent, evtRead, evtIdx, evtEnd, fired, connectReqs,
                   histVars>>

\* Variant of the code: the handler reconnects only when the station had been
\* connected.
Reconnects_OnlyAfterConnection(e, wasConnected) ==
    e = WIFI_EVENT_STA_DISCONNECTED /\ wasConnected

\* The "station disconnected" branch goes on to esp_wifi_connect() after
\* setConnected(false), whatever isConnected() returned; the "got ip" branch
\* ends with setConnected(true).
Reconnects(e, wasConnected) == e = WIFI_EVENT_STA_DISCONNECTED

\* xSemaphoreGive, then esp_wifi_connect() on "station disconnected", the end of
\* the handler on "got ip".
HandlerSetConnectedGive ==
    /\ evtPc = "h_set_give"
    /\ IF connectedMutex = "NULL"
       THEN Abort
       ELSE /\ connectedMutex' = "free"
            /\ IF Reconnects(evtEvent, evtRead)
               THEN /\ evtPc' = "h_connect"
                    /\ UNCHANGED <<evtEvent, evtRead, evtIdx, evtEnd, fired,
                                   connectReqs>>
               ELSE HandlerDone
            /\ UNCHANGED <<connected, initalized, eventReceivers, driverVars, appVars,
                           histVars>>

\* result = esp_wifi_connect(); an error is logged.
HandlerConnect ==
    /\ evtPc = "h_connect"
    /\ \E ok \in BOOLEAN :
          /\ connectReqs' = connectReqs + 1
          /\ evtPc' = "h_end"
    /\ UNCHANGED <<singletonVars, driverVars, appVars, evtEvent, evtRead, evtIdx,
                   evtEnd, fired, histVars>>

HandlerEnd ==
    /\ evtPc = "h_end"
    /\ HandlerDone
    /\ UNCHANGED <<singletonVars, driverVars, appVars, histVars>>

----------------------------------------------------------------------------
\* A subscriber takes the oldest Event out of its queue (xQueueReceive).
Receive(i) ==
    /\ appPc # "aborted"
    /\ eventReceivers[i].buf # <<>>
    /\ eventReceivers' = [eventReceivers EXCEPT ![i].buf = Tail(@)]
    /\ UNCHANGED <<connected, initalized, connectedMutex, driverVars, appVars,
                   evtVars, histVars>>

AppStep ==
    \/ CallIsConnected
    \/ AppIsConnectedTake
    \/ AppIsConnectedRead
    \/ AppIsConnectedGive
    \/ CallInit
    \/ InitCreateMutex
    \/ InitStep
    \/ InitSetInitialized
    \/ CheckInitialized
    \/ CallConnect
    \/ ConnectBranch
    \/ ConnectRegisterWifi
    \/ ConnectRegisterIp
    \/ ConnectStart
    \/ CallDisconnect
    \/ DisconnectBranch
    \/ DisconnectStop
    \/ DisconnectUnregisterWifi
    \/ DisconnectUnregisterIp
    \/ AppSetConnectedTake
    \/ AppSetConnectedWrite
    \/ AppSetConnectedGive
    \/ CallRegisterEventReceiver
    \/ RegisterCheckSize
    \/ RegisterCreateAndPush
    \/ Return

EvtStep ==
    \/ \E e \in DriverEvents : Dispatch(e)
    \/ HandlerLog
    \/ HandlerIsConnectedTake
    \/ HandlerIsConnectedRead
    \/ HandlerIsConnectedGive
    \/ HandlerBranch
    \/ HandlerFireEvent
    \/ HandlerSetConnectedTake
    \/ HandlerSetConnectedWrite
    \/ HandlerSetConnectedGive
    \/ HandlerConnect
    \/ HandlerEnd

Next ==
    \/ AppStep
    \/ EvtStep
    \/ \E i \in 1..Len(eventReceivers) : Receive(i)

Spec == Init /\ [][Next]_vars


----------------------------------------------------------------------------
\* C1: with the handler back in the loop, connected is true exactly when an
\* "address acquired" event was handled and no "station disconnected" event was
\* handled after the last one; "interface started", "interface ready" and
\* "station connected" events leave that history, and so the value, as they
\* were.  The events are counted from the last write of disconnect(), and not at
\* all when disconnect() wrote while an event was being handled.
C1_ConnectedIffAddressAcquiredLast ==
    (evtPc = "idle" /\ lastAddr # "void") => (connected = (lastAddr = "acquired"))

\* An address was acquired, the handler has returned and isConnected() returned
\* true.
C1_Witness ==
    /\ evtPc = "idle"
    /\ connected
    /\ lastAddr = "acquired"
    /\ appOp = "isConnected" /\ appPc = "ret" /\ appRead

\* C2: no notification is missed or duplicated: the first subscriber's queue,
\* while it has never overflowed, never takes the Event it took last, and with a
\* subscriber registered connected changes only by the handler's write that
\* follows the fan-out of the matching Event.
C2_NoMissedOrDuplicatedNotification ==
    [][/\ (lastTaken' # "overflowed" /\ lastTaken \in {CONNECTED, DISCONNECTED}
              /\ Len(eventReceivers'[1].buf) > Len(eventReceivers[1].buf))
             => lastTaken' # lastTaken
       /\ (connected' # connected /\ eventReceivers # <<>>)
             => /\ evtPc = "h_set_write"
                /\ fired = (IF connected' THEN CONNECTED ELSE DISCONNECTED)]_vars

\* C3: the handler passes an Event to fireEvent only on a transition: none on
\* an "address acquired" event when its isConnected() returned true, none on a
\* "station disconnected" event when its isConnected() returned false.
C3_FireOnlyOnTransition ==
    /\ (evtEvent = IP_EVENT_STA_GOT_IP /\ evtRead) => fired = "none"
    /\ (evtEvent = WIFI_EVENT_STA_DISCONNECTED /\ ~evtRead) => fired = "none"
    /\ fired # "none" => fired = EventFor(evtEvent)

\* A failed attempt of the reconnect loop, handled to its end, with a subscriber
\* registered and the flag false throughout.
C3_Witness ==
    /\ evtEvent = WIFI_EVENT_STA_DISCONNECTED
    /\ ~evtRead
    /\ ~connected
    /\ lastAddr = "lost"
    /\ evtPc = "h_end"
    /\ Len(eventReceivers) > 0

\* C4: when disconnect() has stopped the driver, removed both registrations,
\* written the flag and returned without error, connected is false.
C4_FalseAfterDisconnect ==
    (appOp = "disconnect" /\ appPc = "ret" /\ appErr = "ok" /\ appRead) => ~connected

\* C5: when connect() has started the driver, a disconnect() that returns
\* without error leaves the driver stopped and both registrations removed, so
\* that the handler is not invoked again.
C5_DisconnectHaltsAttempts ==
    (appOp = "disconnect" /\ appPc = "ret" /\ appErr = "ok" /\ pre.started)
        => (~started /\ ~wifiReg /\ ~ipReg)

\* The registrations and the driver are as they were when the method was called.
DriverAsBefore ==
    /\ wifiReg = pre.wifiReg
    /\ ipReg = pre.ipReg
    /\ started = pre.started

\* C6: a connect() whose isConnected() returned true returns without error,
\* having made no call (no registration, no esp_wifi_start) and no write of
\* connected, with the registrations, the driver, initalized and the registry as
\* they were when it was called.
C6_ConnectWhileConnectedIsNoOp ==
    (appOp = "connect" /\ appPc = "ret" /\ appRead)
        => /\ appErr = "ok"
           /\ calls = <<>>
           /\ DriverAsBefore
           /\ initalized = pre.initalized
           /\ Len(eventReceivers) = pre.receivers

C6_Witness ==
    /\ appOp = "connect"
    /\ appPc = "ret"
    /\ appRead
    /\ connected
    /\ Len(eventReceivers) = 2

\* C7: a disconnect() whose isConnected() returned false returns without error,
\* having made no call (no esp_wifi_stop, no unregistration), and none of its
\* steps writes connected or touches a subscriber queue.
C7_DisconnectWhileDisconnectedIsNoOp ==
    /\ [](   (appOp = "disconnect" /\ appPc = "ret" /\ ~appRead /\ pre.initalized)
          => (appErr = "ok" /\ calls = <<>> /\ DriverAsBefore))
    /\ [][   (appOp = "disconnect" /\ ~appRead /\ appPc' # appPc /\ appPc' # "aborted")
          => (connected' = connected /\ eventReceivers' = eventReceivers)]_vars

C7_Witness ==
    /\ appOp = "disconnect"
    /\ appPc = "ret"
    /\ ~appRead
    /\ pre.initalized
    /\ pre.started
    /\ ~connected


\* C8: connect() and disconnect() called with initalized false go from the check
\* straight to the "not initialized" exception: no call made, no write of
\* connected, registrations and driver as they were.
C8_NotInitializedChangesNothing ==
    (appOp \in {"connect", "disconnect"} /\ ~pre.initalized
        /\ appPc \notin {"check_init", "aborted"})
        => /\ appPc = "ret"
           /\ appErr = "not_initialized"
           /\ calls = <<>>
           /\ DriverAsBefore

C8_Witness ==
    /\ appOp = "disconnect"
    /\ appPc = "ret"
    /\ appErr = "not_initialized"
    /\ connectedMutex = "free"

\* The driver calls of init(), in order.
InitCalls == <<"init_netif", "init_loop", "init_wifi", "init_mode", "init_config">>

\* C9: initalized becomes true only by the last statement of an init() all of
\* whose driver calls succeeded, a step of init() that fails leaves it as it was,
\* and no step sets it back to false.
C9_InitializedSetOnceBySuccessfulInit ==
    [][/\ initalized => initalized'
       /\ (~initalized /\ initalized')
             => (appOp = "init" /\ appPc = "init_set" /\ calls = InitCalls)
       /\ (appOp = "init" /\ appErr' = "init_failed")
             => initalized' = initalized]_vars

\* An init() that failed after an init() that succeeded.
C9_Witness ==
    /\ appOp = "init"
    /\ appPc = "ret"
    /\ appErr = "init_failed"
    /\ initalized

\* C10: after a failed connect() or disconnect() the registrations and
\* the driver are as they were before the call, whichever step failed.
C10_FailedCallRestoresState ==
    (appOp \in {"connect", "disconnect"} /\ appPc = "ret" /\ appErr # "ok")
        => DriverAsBefore

\* C11: a turn of the fan-out whose iterators are valid sends the Event to the
\* queue it is at when that queue has room and leaves a full queue as it is;
\* it touches no other queue and not the flag, is never blocked, and goes on to
\* the next queue; the fan-out ends only past the last queue registered when it
\* began, and the write that follows stores the flag whatever was dropped.
C11_FullQueueDropsOnlyThatNotification ==
    /\ [](evtPc = "h_fire" => ENABLED HandlerFireEvent)
    /\ [][/\ (evtPc = "h_branch" /\ evtPc' = "h_fire")
                => (evtIdx' = 1 /\ evtEnd' = Len(eventReceivers))
          /\ (evtPc = "h_fire" /\ evtIdx' # evtIdx /\ ~Stale)
                => /\ evtPc' = "h_fire"
                   /\ evtIdx' = evtIdx + 1
                   /\ connected' = connected
                   /\ \A i \in 1..Len(eventReceivers) :
                         eventReceivers'[i] =
                            IF i = evtIdx /\ Len(eventReceivers[i].buf) < eventReceivers[i].cap
                            THEN [eventReceivers[i] EXCEPT
                                     !.buf = Append(eventReceivers[i].buf, fired)]
                            ELSE eventReceivers[i]
          /\ (evtPc = "h_fire" /\ evtPc' \notin {"h_fire", "aborted"})
                => (evtIdx > evtEnd /\ evtPc' = "h_set_take")
          /\ (evtPc = "h_set_write" /\ evtPc' = "h_set_give")
                => connected' = (evtEvent = IP_EVENT_STA_GOT_IP)]_vars

\* Two subscribers; the first left its Connected in its queue of one, so the
\* Disconnected was dropped for it, the second took it, and the flag is false.
C11_Witness ==
    /\ evtPc = "h_set_give"
    /\ fired = DISCONNECTED
    /\ evtEnd = 2
    /\ Len(eventReceivers) = 2
    /\ eventReceivers[1].buf = <<CONNECTED>>
    /\ eventReceivers[2].buf = <<DISCONNECTED>>
    /\ ~connected

\* C12: the first change of connected from false to true after a subscriber
\* registered puts a Connected into its queue: whenever connected goes from
\* false to true with a subscriber registered, the queue of the first
\* subscriber has been sent an Event since it was registered.
C12_FirstConnectedDelivered ==
    [][(~connected /\ connected' /\ eventReceivers # <<>>) => lastTaken # "none"]_vars

\* C13: a "station disconnected" event handled to its end leaves connected
\* false and has made exactly one esp_wifi_connect call, whatever its
\* isConnected() returned; when that returned true, DISCONNECTED was passed to
\* fireEvent and every queue of the fan-out with room took it exactly once; the
\* esp_wifi_connect call, failed or not, changes nothing but the handler's
\* position.
C13_DisconnectedEventReconnectsOnce ==
    /\ []((evtEvent = WIFI_EVENT_STA_DISCONNECTED /\ evtPc = "h_end")
              => /\ ~connected
                 /\ connectReqs = 1
                 /\ fired = (IF evtRead THEN DISCONNECTED ELSE "none")
                 /\ evtRead => evtIdx = evtEnd + 1)
    /\ [][/\ (evtEvent = WIFI_EVENT_STA_DISCONNECTED /\ evtPc # "idle" /\ evtPc' = "idle")
                => (evtPc = "h_end" /\ connectReqs = 1 /\ ~connected)
          /\ (evtEvent = WIFI_EVENT_STA_DISCONNECTED /\ evtPc = "h_fire"
                   /\ evtIdx' # evtIdx /\ ~Stale
                   /\ Len(eventReceivers[evtIdx].buf) < eventReceivers[evtIdx].cap)
                => /\ evtIdx' = evtIdx + 1
                   /\ eventReceivers'[evtIdx].buf =
                         Append(eventReceivers[evtIdx].buf, DISCONNECTED)
          /\ (evtPc = "h_connect" /\ connectReqs' # connectReqs)
                => /\ evtPc' = "h_end"
                   /\ connectReqs' = connectReqs + 1
                   /\ UNCHANGED <<singletonVars, driverVars, appVars>>]_vars

\* The connection is lost with one subscriber registered, whose queue of two
\* has taken the Disconnected after the Connected; the reconnect request is made.
C13_Witness ==
    /\ evtEvent = WIFI_EVENT_STA_DISCONNECTED
    /\ evtPc = "h_end"
    /\ evtRead
    /\ connectReqs = 1
    /\ ~connected
    /\ Len(eventReceivers) = 1
    /\ eventReceivers[1].buf = <<CONNECTED, DISCONNECTED>>

\* C14: eventReceivers changes in length only by the push_back of a
\* registerEventReceiver with queueSize >= 1 whose queue was created, which
\* appends that one queue and returns without error; no step removes or moves a
\* queue; registerEventReceiver(0) ends with invalid_argument, a queue that could
\* not be created with the runtime error, both with the registry as it was.
C14_RegistryGrowsOnlyBySuccessfulRegistration ==
    /\ []((appOp = "registerEventReceiver" /\ appPc = "ret")
              => /\ appArg = 0 <=> appErr = "invalid_argument"
                 /\ appErr \in {"ok", "invalid_argument", "queue_not_created"}
                 /\ Len(eventReceivers) =
                       pre.receivers + (IF appErr = "ok" THEN 1 ELSE 0))
    /\ [][/\ Len(eventReceivers') # Len(eventReceivers)
                => /\ appOp = "registerEventReceiver"
                   /\ appPc = "rer_create"
                   /\ appArg >= 1
                   /\ appErr' = "ok"
                   /\ eventReceivers' = Append(eventReceivers, NewQueue(appArg))
          /\ \A i \in 1..Len(eventReceivers) :
                /\ i <= Len(eventReceivers')
                /\ eventReceivers'[i].cap = eventReceivers[i].cap]_vars

\* A second registration fails to create its queue after a first one succeeded.
C14_Witness ==
    /\ appOp = "registerEventReceiver"
    /\ appPc = "ret"
    /\ appErr = "queue_not_created"
    /\ appArg = 1
    /\ Len(eventReceivers) = 1

\* What disconnect() does on a connected client, in order.
DisconnectCalls == <<"esp_wifi_stop", "unregister_wifi", "unregister_ip", "setConnected">>

\* C15: what a disconnect() has done is always a beginning of: esp_wifi_stop,
\* the unregistration for WIFI_EVENT, the unregistration for IP_EVENT, the write
\* of connected; a call that failed is the last one it made, and the write is
\* made only with the driver stopped and both registrations removed.
C15_DisconnectOrder ==
    appOp = "disconnect"
        => /\ Len(calls) <= Len(DisconnectCalls)
           /\ calls = SubSeq(DisconnectCalls, 1, Len(calls))
           /\ Len(calls) >= 2 => ~started
           /\ Len(calls) >= 3 => ~wifiReg
           /\ Len(calls) = 4 => ~ipReg
           /\ (appPc = "ret" /\ appErr \notin {"ok", "not_initialized"})
                 => Len(calls) \in 1..3

\* disconnect() on a connected client has returned, all four steps made.
C15_Witness ==
    /\ appOp = "disconnect"
    /\ appPc = "ret"
    /\ appErr = "ok"
    /\ calls = DisconnectCalls
    /\ pre.started /\ pre.wifiReg /\ pre.ipReg

\* C16: an Event enters a queue only while connected still holds the old
\* value, false for a Connected and true for a Disconnected, and the handler
\* writes connected only when the fan-out is past its last queue.
C16_FireBeforeFlip ==
    /\ []((evtPc = "h_set_write" /\ fired # "none") => evtIdx > evtEnd)
    /\ [][\A i \in 1..Len(eventReceivers) :
              Len(eventReceivers'[i].buf) > Len(eventReceivers[i].buf)
                 => connected = (fired = DISCONNECTED)]_vars

\* The thread is between xSemaphoreTake and xSemaphoreGive of isConnected() or
\* setConnected().
AppHolds == appPc \in {"isc_read", "isc_give", "set_write", "set_give"}
EvtHolds == evtPc \in {"h_isc_read", "h_isc_give", "h_set_write", "h_set_give"}

\* The thread is at an xSemaphoreTake.
AppTakes == appPc \in {"isc_take", "set_take"}
EvtTakes == evtPc \in {"h_isc_take", "h_set_take"}

\* C17: at most one thread at a time is between the take and the give that
\* guard connected.
C17_LockHeldByOneThread == ~(AppHolds /\ EvtHolds)

\* C18: a thread at an xSemaphoreTake finds a mutex that has been created, and
\* init() does not replace connectedMutex while the other thread holds the
\* mutex or waits for it.
C18_LockExistsWhenAcquired ==
    /\ []((AppTakes \/ EvtTakes) => connectedMutex # "NULL")
    /\ [][(appPc = "init_mutex" /\ appPc' # appPc) => ~(EvtHolds \/ EvtTakes)]_vars

\* C19: connect() reaches a registration only when the handler is not
\* registered for that event base, and esp_wifi_start only when the driver is
\* not started.
C19_NoSecondRegistrationOrStart ==
    /\ appPc = "con_reg_wifi" => ~wifiReg
    /\ appPc = "con_reg_ip" => ~ipReg
    /\ appPc = "con_start" => ~started

\* C20: push_back changes eventReceivers only when the handler is not inside
\* fireEvent.
C20_NoRegistrationDuringFanOut ==
    [][Len(eventReceivers') > Len(eventReceivers) => evtPc # "h_fire"]_vars

====
